---- MODULE Spec2Model ----
(***************************************************************************)
(* SIR integration and inverse-fitting engine of functions.py:             *)
(* get_epidemic_size, get_target_scale, integrate_sir and fit_sir.         *)
(*                                                                         *)
(* Real numbers are held in fixed point.  Fractions (S, I, epsilon, Omega, *)
(* the fixed-point iterate X) are integers in units of 1/Q, matrix entries *)
(* in units of 1/QM, the recovery rate gamma in units of 1/QG.  Scales of  *)
(* get_target_scale are powers of ten times xlo = 1e-5 and are held as the *)
(* decade exponent k (x = 1e-5 * 10^k).                                    *)
(***************************************************************************)
EXTENDS Integers, Sequences, FiniteSets, TLC

VARIABLES cp, es, tg, ig, ft

vars == <<cp, es, tg, ig, ft>>

\* ------------------------------------------------------------------ units
Q == 10 * 10
QM == 10 * 10
QG == 5 + 5
\* largest value of the iterate X the fixed-point format holds; exp(-X) is 0
\* in this format from XCap on
XCap == 20 * Q
\* largest matrix entry the format holds
MCap == 1000 * QM

\* ------------------------------------------------------------------ arithmetic
Min(a, b) == IF a < b THEN a ELSE b

RECURSIVE Pow(_, _)
Pow(b, n) == IF n = 0 THEN 1 ELSE b * Pow(b, n - 1)

\* a vector built elementwise, as the tuple of its elements
Vec(f) == f \o <<>>

RECURSIVE SumSeq(_)
SumSeq(s) == IF s = <<>> THEN 0 ELSE Head(s) + SumSeq(Tail(s))

\* the value v of a one-element set {v}
TheOne(S) == CHOOSE v \in S : TRUE

RECURSIVE ISqrtBS(_, _, _)
ISqrtBS(n, lo, hi) ==
  IF lo >= hi THEN lo
  ELSE TheOne({ IF mid * mid <= n THEN ISqrtBS(n, mid, hi)
                ELSE ISqrtBS(n, lo, mid - 1) :
                mid \in {(lo + hi + 1) \div 2} })

\* floor of the square root
ISqrt(n) == TheOne({ ISqrtBS(m, 0, Min(m, 46340)) : m \in {n} })

\* np.linalg.norm of a vector (2-norm)
norm(v) == ISqrt(SumSeq(Vec([a \in 1..Len(v) |-> v[a] * v[a]])))

\* np.exp(-x) for x >= 0 in units of 1/Q: the reciprocal of the second-order
\* expansion of exp(x), decreasing from Q at 0 to 0 at XCap
exp_neg(x) ==
  IF x >= XCap THEN 0 ELSE (Q * Q) \div (Q + x + (x * x) \div (2 * Q))

\* np.einsum('ab,b', M, B)
einsum_ab_b(M, B) ==
  Vec([a \in 1..Len(M) |-> SumSeq(Vec([b \in 1..Len(B) |-> M[a][b] * B[b]]))])

\* ------------------------------------------------------------------ get_epidemic_size
\* B = 1. - (1.-epsilon_i)*np.exp(-X)
size_B(X, epsilon_i) ==
  Vec([a \in 1..Len(X) |-> Q - ((Q - epsilon_i[a]) * exp_neg(X[a])) \div Q])

\* Xnew = 1./gamma * np.einsum('ab,b', M, B)
size_Xnew(M, B, gamma) ==
  LET MB == einsum_ab_b(M, B)
  IN Vec([a \in 1..Len(M) |-> Min(XCap, (QG * MB[a]) \div (gamma * QM))])

\* rtol = norm(X-Xnew)/(norm(X)+norm(Xnew))*2 ; rtol < rtol_stop.
\* rtol_stop is the fraction rtol_stop[1]/rtol_stop[2]; 0/0 is nan and
\* nan < rtol_stop is False.
size_rtol_met(X, Xnew, rtol_stop) ==
  LET nd == norm(Vec([a \in 1..Len(X) |-> X[a] - Xnew[a]]))
      ns == norm(X) + norm(Xnew)
  IN ns > 0 /\ 2 * nd * rtol_stop[2] < rtol_stop[1] * ns

\* the iterate the returned Omega is derived from, given the last pair
\* (X, Xnew) of the loop
size_final(X, Xnew) == X

\* B = 1. - (1.-epsilon_i)*np.exp(-X) ; Omega = np.sum(B) / N
size_Omega(X, epsilon_i) == SumSeq(size_B(X, epsilon_i)) \div Len(X)

\* the shape checks at entry
size_shape_ok(M, epsilon_i) ==
  /\ \A a \in 1..Len(M) : Len(M[a]) = Len(M)
  /\ Len(epsilon_i) = Len(M)

\* the for loop from iteration iter on, Xnew being the current iterate;
\* the value is the pair (X, Xnew) the loop leaves behind
RECURSIVE size_loop(_, _, _, _, _, _, _)
size_loop(M, epsilon_i, gamma, itermax, rtol_stop, iter, Xnew) ==
  TheOne({ IF size_rtol_met(Xnew, Xn, rtol_stop) \/ iter = itermax - 1
           THEN <<Xnew, Xn>>
           ELSE size_loop(M, epsilon_i, gamma, itermax, rtol_stop, iter + 1, Xn) :
           Xn \in {size_Xnew(M, size_B(Xnew, epsilon_i), gamma)} })

\* get_epidemic_size as a function of its arguments (shapes well formed,
\* itermax >= 1)
get_epidemic_size(M, epsilon_i, gamma, itermax, rtol_stop) ==
  LET zeros == Vec([a \in 1..Len(M) |-> 0])
      last == size_loop(M, epsilon_i, gamma, itermax, rtol_stop, 0, zeros)
  IN size_Omega(size_final(last[1], last[2]), epsilon_i)

\* ---- get_epidemic_size, one loop iteration per step
MaxIter == 4

MSet ==
  { <<<<0, 0>>, <<0, 0>>>>,
    <<<<10, 0>>, <<0, 10>>>>,
    <<<<100, 50>>, <<50, 100>>>>,
    <<<<100>>, <<50>>>> }

EpsSet == { <<0, 0>>, <<1, 1>>, <<10, 20>>, <<1>> }

GammaSet == {1, 5}

RtolSet == { <<1, 10000>>, <<1, 10>> }

EsIdle == [pc |-> "idle"]

TgIdle == [pc |-> "idle"]

IgIdle == [pc |-> "idle"]

FtIdle == [pc |-> "idle"]

EsCall(M, epsilon_i, gamma, itermax, rtol_stop) ==
  [pc |-> "call", M |-> M, epsilon_i |-> epsilon_i, gamma |-> gamma,
   itermax |-> itermax, rtol_stop |-> rtol_stop,
   iter |-> 0, niter |-> 0, X |-> <<>>, Xnew |-> <<>>, met |-> FALSE,
   warned |-> 0, Omega |-> -1, err |-> "none"]

InitSize ==
  /\ cp \in BOOLEAN
  /\ es \in { EsCall(M, e, g, n, r) :
                M \in MSet, e \in EpsSet, g \in GammaSet,
                n \in 0..MaxIter, r \in RtolSet }
  /\ tg = TgIdle
  /\ ig = IgIdle
  /\ ft = FtIdle

\* N = M.shape[0]; the two shape checks; Xnew = np.zeros(N)
get_epidemic_size_enter ==
  /\ es.pc = "call"
  /\ IF ~size_shape_ok(es.M, es.epsilon_i)
     THEN es' = [es EXCEPT !.pc = "raised", !.err = "ValueError"]
     ELSE es' = [es EXCEPT !.pc = IF es.itermax = 0 THEN "after" ELSE "loop",
                           !.Xnew = Vec([a \in 1..Len(es.M) |-> 0])]
  /\ UNCHANGED <<cp, tg, ig, ft>>

\* get_epidemic_size_iter with the warning printed before the convergence test
get_epidemic_size_iter_warn_first ==
  /\ es.pc = "loop"
  /\ LET X == es.Xnew
         Xn == size_Xnew(es.M, size_B(X, es.epsilon_i), es.gamma)
         met == size_rtol_met(X, Xn, es.rtol_stop)
         last == es.iter = es.itermax - 1
     IN es' = [es EXCEPT
                 !.X = X, !.Xnew = Xn, !.met = met,
                 !.niter = es.niter + 1,
                 !.warned = IF last THEN es.warned + 1 ELSE es.warned,
                 !.iter = IF met \/ last THEN es.iter ELSE es.iter + 1,
                 !.pc = IF met \/ last THEN "after" ELSE "loop"]
  /\ UNCHANGED <<cp, tg, ig, ft>>

\* one pass of the body of `for iter in range(itermax)`
get_epidemic_size_iter ==
  /\ es.pc = "loop"
  /\ LET X == es.Xnew
         Xn == size_Xnew(es.M, size_B(X, es.epsilon_i), es.gamma)
         met == size_rtol_met(X, Xn, es.rtol_stop)
         last == es.iter = es.itermax - 1
     IN es' = [es EXCEPT
                 !.X = X, !.Xnew = Xn, !.met = met,
                 !.niter = es.niter + 1,
                 !.warned = IF ~met /\ last THEN es.warned + 1 ELSE es.warned,
                 !.iter = IF met \/ last THEN es.iter ELSE es.iter + 1,
                 !.pc = IF met \/ last THEN "after" ELSE "loop"]
  /\ UNCHANGED <<cp, tg, ig, ft>>

\* the two lines after the loop and the return; X is unbound when the loop
\* body never ran
get_epidemic_size_return ==
  /\ es.pc = "after"
  /\ IF es.X = <<>>
     THEN es' = [es EXCEPT !.pc = "raised", !.err = "UnboundLocalError"]
     ELSE es' = [es EXCEPT !.pc = "returned",
                           !.Omega = size_Omega(size_final(es.X, es.Xnew),
                                                es.epsilon_i)]
  /\ UNCHANGED <<cp, tg, ig, ft>>

NextSize ==
  \/ get_epidemic_size_enter
  \/ get_epidemic_size_iter
  \/ get_epidemic_size_return

SpecSize == InitSize /\ [][NextSize]_vars

\* ------------------------------------------------------------------ get_target_scale
\* xlo = 1.0e-5, as a decade exponent
xlo_exp == 0

\* the number of passes of `for k in range(10)`
target_attempts == 10

\* x*M for x = 1e-5 * 10^k
scale_M(k, M) ==
  Vec([a \in 1..Len(M) |->
     Vec([b \in 1..Len(M[a]) |->
        IF k >= 5 THEN Min(MCap, M[a][b] * Pow(10, k - 5))
        ELSE M[a][b] \div Pow(10, 5 - k)])])

\* func_root = lambda x: get_epidemic_size(x*M, Ii, gamma, ...) - target
target_func_root(k, M, Ii, gamma, target, rtol_stop, itermax) ==
  get_epidemic_size(scale_M(k, M), Ii, gamma, itermax, rtol_stop) - target

\* the test after the bracketing loop that raises "Problem in bracketing!"
target_bracket_failed(fhi) == fhi < 0

\* target_lower_failed raising also when the epidemic size equals the target
target_lower_failed_eq(flo) == flo >= 0

\* the test on flo that raises "Lower bound on scale not small enough!"
target_lower_failed(flo) == flo > 0

\* brentq on a grid lo..hi of scales, f being the function on that grid.  An
\* end of the bracket at which f is zero is returned at once; otherwise brentq
\* refuses a bracket whose ends have the same sign, and returns a place where
\* f is zero or changes sign.
brentq_ok(f, lo, hi) == f[lo] = 0 \/ f[hi] = 0 \/ ((f[lo] < 0) # (f[hi] < 0))

brentq_roots(f, lo, hi) ==
  IF f[lo] = 0 THEN {lo}
  ELSE IF f[hi] = 0 THEN {hi}
  ELSE { k \in lo..(hi - 1) : \/ f[k] = 0
                              \/ f[k] < 0 /\ f[k + 1] > 0
                              \/ f[k] > 0 /\ f[k + 1] < 0 }

MSetT ==
  { <<<<0, 0>>, <<0, 0>>>>,
    <<<<100, 50>>, <<50, 100>>>>,
    <<<<100, 0>>, <<0, 20>>>> }

IiSet == { <<0, 0>>, <<1, 1>>, <<10, 10>>, <<10, 30>> }

TargetSet == {10, 50, 100}

\* the itermax argument get_target_scale is called with
TargetIterMax == 12

TgCall(M, Ii, gamma, target, rtol_stop) ==
  [pc |-> "call", M |-> M, Ii |-> Ii, gamma |-> gamma, target |-> target,
   rtol_stop |-> rtol_stop, itermax |-> TargetIterMax,
   xlo |-> xlo_exp, xhi |-> xlo_exp, flo |-> 0, fhi |-> 0, k |-> 0,
   evals |-> <<>>, bracket |-> <<>>, root |-> -1, err |-> "none"]

InitTarget ==
  /\ cp \in BOOLEAN
  /\ es = EsIdle
  /\ tg \in { TgCall(M, Ii, g, t, r) :
                M \in MSetT, Ii \in IiSet, g \in GammaSet,
                t \in TargetSet, r \in RtolSet }
  /\ ig = IgIdle
  /\ ft = FtIdle

tg_f(k) ==
  target_func_root(k, tg.M, tg.Ii, tg.gamma, tg.target, tg.rtol_stop, tg.itermax)

\* xlo = 1.0e-5 ; flo = func_root(xlo) ; the test on flo ; xhi = xlo
get_target_scale_lower ==
  /\ tg.pc = "call"
  /\ LET flo == tg_f(tg.xlo)
     IN IF target_lower_failed(flo)
        THEN tg' = [tg EXCEPT !.pc = "raised", !.flo = flo,
                              !.evals = Append(tg.evals, <<tg.xlo, flo>>),
                              !.err = "Lower bound on scale not small enough!"]
        ELSE tg' = [tg EXCEPT !.pc = "bracket", !.flo = flo, !.xhi = tg.xlo,
                              !.evals = Append(tg.evals, <<tg.xlo, flo>>)]
  /\ UNCHANGED <<cp, es, ig, ft>>

\* one pass of `for k in range(10)`
get_target_scale_attempt ==
  /\ tg.pc = "bracket"
  /\ LET fhi == tg_f(tg.xhi)
         last == tg.k = target_attempts - 1
     IN tg' = [tg EXCEPT
                 !.fhi = fhi,
                 !.evals = Append(tg.evals, <<tg.xhi, fhi>>),
                 !.xhi = IF fhi > 0 THEN tg.xhi ELSE tg.xhi + 1,
                 !.k = IF fhi > 0 \/ last THEN tg.k ELSE tg.k + 1,
                 !.pc = IF fhi > 0 \/ last THEN "bracketed" ELSE "bracket"]
  /\ UNCHANGED <<cp, es, ig, ft>>

\* the test after the loop, then root_scalar(func_root, bracket=(xlo, xhi))
get_target_scale_root ==
  /\ tg.pc = "bracketed"
  /\ IF target_bracket_failed(tg.fhi)
     THEN tg' = [tg EXCEPT !.pc = "raised", !.err = "Problem in bracketing!"]
     ELSE LET f == [k \in tg.xlo..tg.xhi |-> tg_f(k)]
          IN IF ~brentq_ok(f, tg.xlo, tg.xhi)
             THEN tg' = [tg EXCEPT !.pc = "raised", !.bracket = <<tg.xlo, tg.xhi>>,
                                   !.err = "f(a) and f(b) must have different signs"]
             ELSE \E r \in brentq_roots(f, tg.xlo, tg.xhi) :
                    tg' = [tg EXCEPT !.pc = "returned", !.root = r,
                                     !.bracket = <<tg.xlo, tg.xhi>>]
  /\ UNCHANGED <<cp, es, ig, ft>>

NextTarget ==
  \/ get_target_scale_lower
  \/ get_target_scale_attempt
  \/ get_target_scale_root

SpecTarget == InitTarget /\ [][NextTarget]_vars

\* ------------------------------------------------------------------ SIR dynamics
\* units of the coupling matrices (1/QB per day) and of the scales (1/QS)
QB == 5 + 5
QS == 1 + 1

\* the rate at which the daily step depletes S entirely
RateCap == Q * QB * QS

\* S, I = X.reshape((2,N))
sir_X_to_SI(X, N) == <<SubSeq(X, 1, N), SubSeq(X, N + 1, 2 * N)>>

\* xp.ravel(xp.array([S,I])); xp = cp.get_array_module(S) needs the cupy module
sir_SI_to_X(S, I) == S \o I

\* whether sir_SI_to_X can run: cp.get_array_module is an attribute of cupy
sir_SI_to_X_runs == cp

\* B*scales[i-1], b*B; an entry of RateCap or more saturates the contact rate
\* whenever it is multiplied by a nonzero I
scaled(B, b) ==
  Vec([a \in 1..Len(B) |-> Vec([c \in 1..Len(B) |-> Min(RateCap, B[a][c] * b)])])

\* dS = -np.einsum('i,ij,j->i', S, B, I) ; dI = -dS - g*I, for one day.  B is
\* the scaled matrix; the contact rate B.I saturates at RateCap.
func_sir_dX(X, B, g) ==
  LET N == Len(B)
      SI == sir_X_to_SI(X, N)
      S == SI[1]
      I == SI[2]
      BI == einsum_ab_b(B, I)
      dS == Vec([a \in 1..N |-> -((S[a] * Min(RateCap, BI[a])) \div RateCap)])
      dI == Vec([a \in 1..N |-> -dS[a] - (g * I[a]) \div QG])
  IN sir_SI_to_X(dS, dI)

\* one day of scipy.integrate.solve_ivp(func_sir_dX, y0=X, args=(B, gamma))
solve_day(X, B, g) ==
  LET dX == func_sir_dX(X, B, g)
  IN Vec([j \in 1..Len(X) |-> X[j] + dX[j]])

\* sol.y for t_eval = 0..dt: the dt+1 daily samples, X first
RECURSIVE solve_ivp(_, _, _, _)
solve_ivp(X, dt, B, g) ==
  IF dt = 0 THEN <<X>>
  ELSE TheOne({ <<X>> \o solve_ivp(Xd, dt - 1, B, g) : Xd \in {solve_day(X, B, g)} })

\* np.einsum('i,i', 1.-X.reshape(2, N)[0], P)/np.einsum('i->', P), in units
\* of 1/(Q * sum(P))
get_sir_omega_X(X, P) ==
  LET N == Len(P)
      S == sir_X_to_SI(X, N)[1]
  IN SumSeq(Vec([a \in 1..N |-> (Q - S[a]) * P[a]]))

\* what compute_sir_X returns of the solution sol.y (one column per sample of
\* t_eval): sol.y[:,-1:].T, the rows of the last column only
compute_sir_X_rows(y) == <<y[Len(y)]>>

\* compute_sir_X(X, dt, B, gamma, method_solver, t_eval) when the solver succeeds
compute_sir_X(X, dt, B, gamma) == compute_sir_X_rows(solve_ivp(X, dt, B, gamma))

\* segment_final keeping the state the segment started from
segment_final_start(y) == y[1]

\* Xnew = sol.y[:,-1] (integrate_sir), Xnew = Xnews[-1] (fit_sir): the state
\* the next segment starts from
segment_final(y) == y[Len(y)]

\* ------------------------------------------------------------------ store
\* key = Path(path) / t.strftime(tfmt), for whole-day dates t
store_key(t) == <<"pathtoloc", t>>

\* the infectivity matrix the store holds for day d, one per day
day_matrix(d) == << <<4 + 2 * d, 2>>, <<2, 3 + d>> >>

\* a store holding the matrices of the days in keys
store_of(keys) == [k \in { store_key(d) : d \in keys } |-> day_matrix(k[2])]

\* mykey in store.keys()
store_has(store, t) == store_key(t) \in DOMAIN store

\* read_df(t, tfmt, store, path): store[str(key)]
read_df(t, store) == store[store_key(t)]

\* segment_matrix without the reload: the matrix loaded first is kept
segment_matrix_stale(store, t, B) == B

\* the matrix used for the segment starting at t: reloaded when the store has
\* the key of t, else the matrix B loaded before
segment_matrix(store, t, B) == IF store_has(store, t) THEN read_df(t, store) ELSE B

\* ------------------------------------------------------------------ integrate_sir
MaxDay == 3

MaxPoints == 3

Days == 0..MaxDay

TimesSet ==
  { t \in UNION { [1..n -> Days] : n \in 1..MaxPoints } :
      /\ t[1] = 0
      /\ \A j \in 1..(Len(t) - 1) : t[j] < t[j + 1] }

StoreSet == { store_of(keys) : keys \in SUBSET (0..(MaxDay - 1)) }

ScaleSet == {0, 2, 5}

ScalesSet == UNION { [1..n -> ScaleSet] : n \in 0..(MaxPoints - 1) }

XiSet == { <<90, 100, 10, 0>>, <<80, 90, 10, 5>> }

\* the values of the argument gamma, in units of 1/QG
SirGammaSet == {1}

\* err is the message of the exception raised and err_values the values it
\* carries (the key of a KeyError, the values formatted into a message)
IgCall(Xi, times, scales, gamma, store) ==
  [pc |-> "call", Xi |-> Xi, times |-> times, scales |-> scales,
   gamma |-> gamma, store |-> store,
   nt |-> 0, t |-> 0, X |-> <<>>, B |-> <<>>, N |-> 0, i |-> 0,
   ts |-> <<>>, Xs |-> <<>>, segs |-> <<>>, nsolve |-> 0,
   Ss |-> <<>>, Is |-> <<>>, err |-> "none", err_values |-> <<>>]

\* integrate_sir_init checking the length of scales before reading the store
integrate_sir_init_scales_first ==
  /\ ig.pc = "call"
  /\ LET t == ig.times[1]
     IN IF Len(ig.scales) # Len(ig.times) - 1
        THEN ig' = [ig EXCEPT !.pc = "raised", !.err = "scales must be of length nt-1",
                              !.err_values = <<Len(ig.times) - 1>>,
                              !.nt = Len(ig.times), !.t = t, !.X = ig.Xi]
        ELSE IF ~store_has(ig.store, t)
        THEN ig' = [ig EXCEPT !.pc = "raised", !.err = "KeyError",
                              !.err_values = <<store_key(t)>>,
                              !.nt = Len(ig.times), !.t = t, !.X = ig.Xi]
        ELSE ig' = [ig EXCEPT !.pc = "loop", !.nt = Len(ig.times), !.t = t,
                              !.X = ig.Xi, !.B = read_df(t, ig.store),
                              !.N = Len(read_df(t, ig.store)),
                              !.ts = <<t>>, !.Xs = <<ig.Xi>>, !.i = 1]
  /\ UNCHANGED <<cp, es, tg, ft>>

\* the initializations: nt, t, X, B = read_df(times[0]), N, the check of the
\* length of scales, ts = [t], Xs = [X]
integrate_sir_init ==
  /\ ig.pc = "call"
  /\ LET t == ig.times[1]
     IN IF ~store_has(ig.store, t)
        THEN ig' = [ig EXCEPT !.pc = "raised", !.err = "KeyError",
                              !.err_values = <<store_key(t)>>,
                              !.nt = Len(ig.times), !.t = t, !.X = ig.Xi]
        ELSE IF Len(ig.scales) # Len(ig.times) - 1
        THEN ig' = [ig EXCEPT !.pc = "raised", !.err = "scales must be of length nt-1",
                              !.err_values = <<Len(ig.times) - 1>>,
                              !.nt = Len(ig.times), !.t = t, !.X = ig.Xi,
                              !.B = read_df(t, ig.store),
                              !.N = Len(read_df(t, ig.store))]
        ELSE ig' = [ig EXCEPT !.pc = "loop", !.nt = Len(ig.times), !.t = t,
                              !.X = ig.Xi, !.B = read_df(t, ig.store),
                              !.N = Len(read_df(t, ig.store)),
                              !.ts = <<t>>, !.Xs = <<ig.Xi>>, !.i = 1]
  /\ UNCHANGED <<cp, es, tg, ft>>

\* segment_dates over all of t_range, the start date included
segment_dates_from_start(t, dt) == Vec([x \in 1..(dt + 1) |-> t + x - 1])

\* the dates dumped for a segment: t + timedelta(days=x) for x in t_range[1:]
segment_dates(t, dt) == Vec([x \in 1..dt |-> t + x])

\* integrate_sir_segment retrying the segment when the solver fails
integrate_sir_segment_retry ==
  /\ ig.pc = "loop"
  /\ ig.i < ig.nt
  /\ \E success \in BOOLEAN :
       LET B == segment_matrix(ig.store, ig.t, ig.B)
           tnew == ig.times[ig.i + 1]
           dt == tnew - ig.t
           seg == [i |-> ig.i, t |-> ig.t, tnew |-> tnew, X0 |-> ig.X, B |-> B,
                   scale |-> ig.scales[ig.i]]
           sol == solve_ivp(ig.X, dt, scaled(B, ig.scales[ig.i]), ig.gamma)
       IN IF ~sir_SI_to_X_runs
          THEN ig' = [ig EXCEPT !.pc = "raised", !.err = "AttributeError", !.B = B,
                                !.nsolve = ig.nsolve + 1,
                                !.segs = Append(ig.segs, seg)]
          ELSE IF ~success
          THEN /\ ig.nsolve < ig.nt
               /\ ig' = [ig EXCEPT !.B = B, !.nsolve = ig.nsolve + 1,
                                   !.segs = Append(ig.segs, seg)]
          ELSE ig' = [ig EXCEPT !.B = B, !.nsolve = ig.nsolve + 1,
                                !.segs = Append(ig.segs, seg),
                                !.Xs = ig.Xs \o Tail(sol),
                                !.ts = ig.ts \o segment_dates(ig.t, dt),
                                !.t = tnew, !.X = segment_final(sol),
                                !.i = ig.i + 1]
  /\ UNCHANGED <<cp, es, tg, ft>>

\* one pass of `for i in range(1, nt)`: the key test, the solver call on the
\* segment, the break condition, the dump and the update
integrate_sir_segment ==
  /\ ig.pc = "loop"
  /\ ig.i < ig.nt
  /\ \E success \in BOOLEAN :
       LET B == segment_matrix(ig.store, ig.t, ig.B)
           tnew == ig.times[ig.i + 1]
           dt == tnew - ig.t
           seg == [i |-> ig.i, t |-> ig.t, tnew |-> tnew, X0 |-> ig.X, B |-> B,
                   scale |-> ig.scales[ig.i]]
           sol == solve_ivp(ig.X, dt, scaled(B, ig.scales[ig.i]), ig.gamma)
       IN IF ~sir_SI_to_X_runs
          THEN ig' = [ig EXCEPT !.pc = "raised", !.err = "AttributeError", !.B = B,
                                !.nsolve = ig.nsolve + 1,
                                !.segs = Append(ig.segs, seg)]
          ELSE IF ~success
          THEN ig' = [ig EXCEPT !.pc = "raised", !.err = "integration failed!",
                                !.B = B, !.nsolve = ig.nsolve + 1,
                                !.segs = Append(ig.segs, seg)]
          ELSE ig' = [ig EXCEPT !.B = B, !.nsolve = ig.nsolve + 1,
                                !.segs = Append(ig.segs, seg),
                                !.Xs = ig.Xs \o Tail(sol),
                                !.ts = ig.ts \o segment_dates(ig.t, dt),
                                !.t = tnew, !.X = segment_final(sol),
                                !.i = ig.i + 1]
  /\ UNCHANGED <<cp, es, tg, ft>>

\* after the loop: SIs = [sir_X_to_SI(x, N) for x in Xs], Ss, Is, return
integrate_sir_return ==
  /\ ig.pc = "loop"
  /\ ig.i = ig.nt
  /\ ig' = [ig EXCEPT !.pc = "returned",
                      !.Ss = Vec([j \in 1..Len(ig.Xs) |-> sir_X_to_SI(ig.Xs[j], ig.N)[1]]),
                      !.Is = Vec([j \in 1..Len(ig.Xs) |-> sir_X_to_SI(ig.Xs[j], ig.N)[2]])]
  /\ UNCHANGED <<cp, es, tg, ft>>

\* ------------------------------------------------------------------ fit_sir
\* fscale = 3.
fscale == 3

\* the last value of k in `for k in range(1,10)`
bracket_last_k == 9

\* blo = 0.
blo == 0

PopSet == { <<1, 1>>, <<1, 3>> }

\* the values of the argument b_scale: 0, and the default b_scale=1
BScaleSet == {0, QS}

\* rows of T_real: no infection observed, and infection in both communities
ObsRows == { <<0, 0>>, <<30, 10>> }

FtCall(times, T_real, gamma, population, store, b_scale, known) ==
  [pc |-> "call", times |-> times, T_real |-> T_real, gamma |-> gamma,
   population |-> population, store |-> store, b_scale0 |-> b_scale,
   known |-> known,
   nt |-> 0, t |-> 0, B |-> <<>>, N |-> 0, Y_real |-> <<>>, X |-> <<>>, y |-> 0,
   ts |-> <<>>, Xs |-> <<>>, Ys |-> <<>>, b_scales |-> <<>>, b_scale |-> b_scale,
   i |-> 0, tnew |-> 0, dt |-> 0, ypred |-> 0, bhi |-> 0, k |-> 0, f |-> 0,
   segs |-> <<>>, tries |-> <<>>, bracket |-> <<>>, brackets |-> <<>>,
   df_S |-> <<>>, df_I |-> <<>>, df_fit |-> <<>>, err |-> "none",
   err_values |-> <<>>]

\* fit_sir called on the trajectory integrate_sir returned: the observed
\* fractions T = 1 - S at the time points, same store, gamma and time points
fit_sir_round_trip ==
  /\ ig.pc = "returned"
  /\ ft.pc = "idle"
  /\ \E population \in PopSet, b_scale \in BScaleSet :
       LET T_real == Vec([j \in 1..Len(ig.times) |->
                            LET S == ig.Ss[ig.times[j] - ig.times[1] + 1]
                            IN Vec([a \in 1..Len(S) |-> Q - S[a]])])
       IN ft' = FtCall(ig.times, T_real, ig.gamma, population, ig.store,
                       b_scale, ig.scales)
  /\ UNCHANGED <<cp, es, tg, ig>>

\* fit_initial_state keeping X = np.zeros((2, N))
fit_initial_state_zeros(T_real) ==
  sir_SI_to_X(Vec([a \in 1..Len(T_real[1]) |-> 0]), Vec([a \in 1..Len(T_real[1]) |-> 0]))

\* I = T_real[0] ; S = 1 - I ; X = sir_SI_to_X(S, I)
fit_initial_state(T_real) ==
  LET I == T_real[1]
      S == Vec([a \in 1..Len(I) |-> Q - I[a]])
  IN sir_SI_to_X(S, I)

\* the initializations: nt, t, B = read_df(times[0]), N, Y_real, the initial
\* state from T_real[0], y, ts, Xs, Ys, b_scales
fit_sir_init ==
  /\ ft.pc = "call"
  /\ LET t == ft.times[1]
         P == ft.population
         X == fit_initial_state(ft.T_real)
         N == Len(read_df(t, ft.store))
     IN IF ~store_has(ft.store, t)
        THEN ft' = [ft EXCEPT !.pc = "raised", !.err = "KeyError",
                              !.err_values = <<store_key(t)>>,
                              !.nt = Len(ft.times), !.t = t]
        ELSE IF ~sir_SI_to_X_runs
        THEN ft' = [ft EXCEPT !.pc = "raised", !.err = "AttributeError",
                              !.nt = Len(ft.times), !.t = t,
                              !.B = read_df(t, ft.store), !.N = N]
        ELSE ft' = [ft EXCEPT
                      !.pc = "step", !.nt = Len(ft.times), !.t = t,
                      !.B = read_df(t, ft.store), !.N = N,
                      !.Y_real = Vec([j \in 1..Len(ft.T_real) |->
                                        SumSeq(Vec([a \in 1..Len(P) |->
                                                      ft.T_real[j][a] * P[a]]))]),
                      !.X = X, !.y = get_sir_omega_X(X, P),
                      !.ts = <<t>>, !.Xs = <<sir_X_to_SI(X, N)>>,
                      !.Ys = <<get_sir_omega_X(X, P)>>, !.b_scales = <<>>,
                      !.i = 1]
  /\ UNCHANGED <<cp, es, tg, ig>>

\* fit_ypred reading the observation of the start of the step
fit_ypred_start(Y_real, i) == Y_real[i]

\* ypred = Y_real[i], the observation at the end of step i (times[i], the
\* (i+1)-th time point)
fit_ypred(Y_real, i) == Y_real[i + 1]

\* the head of a pass of `for i in range(1, nt)`: the key test, tnew, dt,
\* ypred, and bhi = b_scale before the bracketing loop
fit_sir_step ==
  /\ ft.pc = "step"
  /\ ft.i < ft.nt
  /\ LET B == segment_matrix(ft.store, ft.t, ft.B)
         tnew == ft.times[ft.i + 1]
     IN ft' = [ft EXCEPT
                 !.pc = "bracket", !.B = B, !.tnew = tnew, !.dt = tnew - ft.t,
                 !.ypred = fit_ypred(ft.Y_real, ft.i), !.bhi = ft.b_scale, !.k = 1,
                 !.tries = <<>>,
                 !.segs = Append(ft.segs, [i |-> ft.i, t |-> ft.t, tnew |-> tnew,
                                           X0 |-> ft.X, B |-> B])]
  /\ UNCHANGED <<cp, es, tg, ig>>

\* func_root = lambda b: get_sir_omega_X(compute_sir_X(X, dt, b*B, gamma,
\* method_solver), population) - ypred
fit_func_root(b, X, dt, B, gamma, population, ypred) ==
  LET Xnew == compute_sir_X(X, dt, scaled(B, b), gamma)[1]
  IN get_sir_omega_X(Xnew, population) - ypred

ft_f(b) ==
  fit_func_root(b, ft.X, ft.dt, ft.B, ft.gamma, ft.population, ft.ypred)

\* bracket_grow moving the upper bound off zero
bracket_grow_off_zero(bhi) == bhi * fscale + 1

\* bhi *= fscale
bracket_grow(bhi) == bhi * fscale

\* one pass of `for k in range(1,10)`
fit_sir_bracket ==
  /\ ft.pc = "bracket"
  /\ \E success \in BOOLEAN :
       IF ~success
       THEN ft' = [ft EXCEPT !.pc = "raised", !.err = "integration failed!"]
       ELSE LET f == ft_f(ft.bhi)
                last == ft.k = bracket_last_k
            IN ft' = [ft EXCEPT
                        !.f = f,
                        !.tries = Append(ft.tries, <<ft.bhi, f>>),
                        !.bhi = IF f > 0 THEN ft.bhi ELSE bracket_grow(ft.bhi),
                        !.k = IF f > 0 \/ last THEN ft.k ELSE ft.k + 1,
                        !.pc = IF f > 0 \/ last THEN "solve" ELSE "bracket"]
  /\ UNCHANGED <<cp, es, tg, ig>>

\* the test after the bracketing loop that raises "Problem in bracketing!"
fit_bracket_failed(f) == f < 0

\* the rows dumped for a step: Xnew.reshape(2,N) for Xnew in Xnews
fit_dump_rows(Xnews, N) ==
  Vec([j \in 1..Len(Xnews) |-> sir_X_to_SI(Xnews[j], N)])

\* the rest of the pass: the test after the bracketing loop, root_scalar on
\* (blo, bhi), the test of sol.converged, the state at the accepted scale, the
\* dump and the update
fit_sir_solve ==
  /\ ft.pc = "solve"
  /\ IF fit_bracket_failed(ft.f)
     THEN ft' = [ft EXCEPT !.pc = "raised", !.err = "Problem in bracketing!"]
     ELSE \E success \in BOOLEAN :
       IF ~success
       THEN ft' = [ft EXCEPT !.pc = "raised", !.err = "integration failed!",
                             !.bracket = <<blo, ft.bhi>>]
       ELSE LET f == [b \in blo..ft.bhi |-> ft_f(b)]
            IN IF ~brentq_ok(f, blo, ft.bhi)
               THEN ft' = [ft EXCEPT !.pc = "raised", !.bracket = <<blo, ft.bhi>>,
                                     !.err = "f(a) and f(b) must have different signs"]
               ELSE \E b_scale \in brentq_roots(f, blo, ft.bhi), converged \in BOOLEAN :
                      LET Xnews == compute_sir_X(ft.X, ft.dt, scaled(ft.B, b_scale),
                                                 ft.gamma)
                          Xnew == segment_final(Xnews)
                          y == get_sir_omega_X(Xnew, ft.population)
                      IN IF ~converged
                         THEN ft' = [ft EXCEPT !.pc = "raised",
                                               !.bracket = <<blo, ft.bhi>>,
                                               !.err = "root finding failed!"]
                         ELSE ft' = [ft EXCEPT
                                  !.pc = "step", !.bracket = <<blo, ft.bhi>>,
                                  !.brackets = Append(ft.brackets, <<blo, ft.bhi>>),
                                  !.b_scale = b_scale,
                                  !.Xs = ft.Xs \o fit_dump_rows(Xnews, ft.N),
                                  !.ts = ft.ts \o segment_dates(ft.t, ft.dt),
                                  !.Ys = Append(ft.Ys, y),
                                  !.b_scales = Append(ft.b_scales, b_scale),
                                  !.y = y, !.t = ft.tnew, !.X = Xnew,
                                  !.i = ft.i + 1]
  /\ UNCHANGED <<cp, es, tg, ig>>

\* Python's None in the scale column: a value no scale takes (the scales
\* brentq returns lie in the bracket (blo, bhi), at or above 0)
None == 0 - 1

\* fit_table_scales with None put first instead of last
fit_table_scales_leading(b_scales) == <<None>> \o b_scales

\* b_scales.append(None): the scale column of the fit table
fit_table_scales(b_scales) == Append(b_scales, None)

\* after the loop: b_scales.append(None), the arrays S and I, and the three
\* DataFrames; pd.DataFrame(data, index) raises ValueError unless data has one
\* row per index entry
fit_sir_export ==
  /\ ft.pc = "step"
  /\ ft.i = ft.nt
  /\ LET b_scales == fit_table_scales(ft.b_scales)
         S == Vec([j \in 1..Len(ft.Xs) |-> ft.Xs[j][1]])
         I == Vec([j \in 1..Len(ft.Xs) |-> ft.Xs[j][2]])
     IN IF Len(S) # Len(ft.ts)
        THEN ft' = [ft EXCEPT !.pc = "raised", !.b_scales = b_scales,
                              !.err = "Shape of passed values"]
        ELSE ft' = [ft EXCEPT
                      !.pc = "returned", !.b_scales = b_scales,
                      !.df_S = [index |-> ft.ts, data |-> S],
                      !.df_I = [index |-> ft.ts, data |-> I],
                      !.df_fit = [index |-> ft.times,
                                  data |-> Vec([j \in 1..Len(ft.times) |->
                                                  <<b_scales[j], ft.Ys[j]>>])]]
  /\ UNCHANGED <<cp, es, tg, ig>>

ObsSet(n) == [1..n -> ObsRows]

InitSir ==
  /\ cp \in BOOLEAN
  /\ es = EsIdle
  /\ tg = TgIdle
  /\ \/ /\ ig \in { IgCall(Xi, times, scales, gamma, store) :
                      Xi \in XiSet, times \in TimesSet, scales \in ScalesSet,
                      gamma \in SirGammaSet, store \in StoreSet }
        /\ ft = FtIdle
     \/ /\ ig = IgIdle
        /\ \E times \in TimesSet :
             ft \in { FtCall(times, T_real, gamma, population, store, b_scale, <<>>) :
                        T_real \in ObsSet(Len(times)), gamma \in SirGammaSet,
                        population \in PopSet, store \in StoreSet,
                        b_scale \in BScaleSet }

NextSir ==
  \/ integrate_sir_init
  \/ integrate_sir_segment
  \/ integrate_sir_return
  \/ fit_sir_round_trip
  \/ fit_sir_init
  \/ fit_sir_step
  \/ fit_sir_bracket
  \/ fit_sir_solve
  \/ fit_sir_export

SpecSir == InitSir /\ [][NextSir]_vars

\* ================================================================== claims

\* ---- C1: the trajectory integrate_sir returns has 1 + (times[-1] - times[0])
\* samples; the dates start at times[0], increase by one day per sample and
\* end at times[-1]; S and I have one row of N entries per returned date.
C1_Dense ==
  /\ ig.pc = "loop" => Len(ig.Xs) = Len(ig.ts) /\ Len(ig.ts) = 1 + ig.t - ig.times[1]
  /\ ig.pc = "returned" =>
       /\ Len(ig.ts) = 1 + ig.times[Len(ig.times)] - ig.times[1]
       /\ ig.ts[1] = ig.times[1]
       /\ ig.ts[Len(ig.ts)] = ig.times[Len(ig.times)]
       /\ \A j \in 1..(Len(ig.ts) - 1) : ig.ts[j + 1] = ig.ts[j] + 1
       /\ Len(ig.Ss) = Len(ig.ts)
       /\ Len(ig.Is) = Len(ig.ts)
       /\ \A j \in 1..Len(ig.ts) : Len(ig.Ss[j]) = ig.N /\ Len(ig.Is[j]) = ig.N

C1_Witness ==
  /\ ig.pc = "returned"
  /\ Len(ig.times) = 2
  /\ ig.times[2] - ig.times[1] = MaxDay
  /\ Len(ig.ts) = MaxDay + 1

\* the matrix a segment starting at times[i] is to be integrated with: that of
\* the most recent time point up to times[i] that has a key in the store
C2_Expected(store, times, i) ==
  LET keyed == { j \in 1..i : store_has(store, times[j]) }
      last == CHOOSE j \in keyed : \A m \in keyed : m <= j
  IN read_df(times[last], store)

\* ---- C2: in integrate_sir and fit_sir every segment is integrated with the
\* matrix of its start date when the store has that key, and otherwise with
\* the matrix of the most recent earlier time point that had a key; a missing
\* key after the first date raises nothing (KeyError arises only before the
\* first segment).
C2_Staleness ==
  /\ ig.pc # "idle" =>
       /\ \A j \in 1..Len(ig.segs) :
            /\ ig.segs[j].i = j
            /\ ig.segs[j].B = C2_Expected(ig.store, ig.times, j)
       /\ ig.err = "KeyError" => ig.segs = <<>> /\ ~store_has(ig.store, ig.times[1])
  /\ ft.pc # "idle" =>
       /\ \A j \in 1..Len(ft.segs) :
            /\ ft.segs[j].i = j
            /\ ft.segs[j].B = C2_Expected(ft.store, ft.times, j)
       /\ ft.err = "KeyError" => ft.segs = <<>> /\ ~store_has(ft.store, ft.times[1])

C2_Witness ==
  /\ ig.pc = "returned"
  /\ ft.pc = "returned"
  /\ \E j \in 2..Len(ig.segs) : ~store_has(ig.store, ig.segs[j].t)
  /\ \E j \in 2..Len(ft.segs) : ~store_has(ft.store, ft.segs[j].t)

\* ---- C3 (as stated): in fit_sir every step of dt days appends dt samples, so
\* the stored state rows always number the stored dates and the export of the
\* S and I tables succeeds.
C3_AsStated ==
  ft.pc # "idle" => Len(ft.Xs) = Len(ft.ts) /\ ft.err # "Shape of passed values"

\* what the code does instead: one state row per step
C3_OneRowPerStep ==
  ft.pc \in {"step", "bracket", "solve", "returned"} =>
    Len(ft.Xs) = Len(ft.b_scales \o <<0>>) - (IF ft.pc = "returned" THEN 1 ELSE 0)

\* fit_sir started from the initial state integrate_sir was given
C4_SameStart == ft.pc \notin {"idle", "call"} /\ ft.Xs # <<>> /\
                sir_SI_to_X(ft.Xs[1][1], ft.Xs[1][2]) = ig.Xi

\* the map scale -> predicted aggregate fraction of step j is strictly
\* increasing on the bracket of that step
C4_Increasing(j) ==
  LET seg == ft.segs[j]
      hi == ft.brackets[j][2]
      y(b) == get_sir_omega_X(
                compute_sir_X(seg.X0, seg.tnew - seg.t, scaled(seg.B, b),
                              ft.gamma)[1], ft.population)
  IN \A b \in blo..(hi - 1) : y(b) < y(b + 1)

\* ---- C4: round trip.  When fit_sir is run on the fractions integrate_sir
\* produced with known scales (same store, gamma, time points and initial
\* state), every scale fit_sir records for a step equals the known scale of
\* that step, provided the map from scale to predicted fraction is strictly
\* increasing on the bracket of that step and of the steps before.
C4_RoundTrip ==
  ig.pc = "returned" /\ ft.pc \notin {"idle", "call"} =>
    \A j \in 1..Len(ft.brackets) :
      \/ ft.b_scales[j] = ft.known[j]
      \/ ~C4_SameStart
      \/ \E m \in 1..j : ~C4_Increasing(m)

C4_Witness ==
  /\ ig.pc = "returned"
  /\ ft.pc = "returned"
  /\ Len(ft.brackets) = 2
  /\ C4_SameStart
  /\ \A m \in 1..2 : C4_Increasing(m)
  /\ ft.known[1] > 0 /\ ft.known[2] > 0 /\ ft.known[1] # ft.known[2]
  /\ ft.b_scales[1] = ft.known[1]
  /\ ft.b_scales[2] = ft.known[2]

\* some attempt of the current bracketing exceeded the target
C5_Exceeded == \E j \in 1..Len(ft.tries) : ft.tries[j][2] > 0

\* ---- C5 (as stated): in each step of fit_sir the bracketing starts the
\* upper bound at the previous accepted scale (b_scale on the first step),
\* multiplies it by 3 after each attempt that does not exceed the target,
\* makes up to 10 attempts, and raises the bracketing error if no attempt's
\* predicted fraction exceeds the target.
C5_AsStated ==
  ft.pc \notin {"idle", "call"} =>
    /\ ft.pc \in {"bracket", "solve"} =>
         \A j \in 1..Len(ft.tries) :
           ft.tries[j][1] = (IF j = 1 THEN ft.b_scale ELSE fscale * ft.tries[j - 1][1])
    /\ ft.err = "Problem in bracketing!" => Len(ft.tries) = 10 /\ ~C5_Exceeded
    /\ ft.pc = "solve" /\ ~C5_Exceeded => Len(ft.tries) = 10
    /\ ft.bracket # <<>> /\ ft.pc = "step" /\ ft.tries # <<>> => C5_Exceeded

\* the two ways the code departs from C5: the bracketing error after 9
\* attempts, and the root finder called although no attempt exceeded the target
C5_NineAttempts ==
  ft.pc # "idle" /\ ft.err = "Problem in bracketing!" => Len(ft.tries) # bracket_last_k

C5_NoAttemptExceeded ==
  ft.pc # "idle" /\ ft.pc = "step" /\ ft.tries # <<>> => C5_Exceeded

\* every segment is solved once and in order; after a solver failure the run
\* has raised at that segment and holds no returned trajectory
C10_Inv ==
  ig.pc # "idle" =>
    /\ ig.nsolve = Len(ig.segs)
    /\ \A j \in 1..Len(ig.segs) : ig.segs[j].i = j
    /\ ig.err = "integration failed!" =>
         /\ ig.pc = "raised"
         /\ ig.i = Len(ig.segs)
         /\ ig.Ss = <<>> /\ ig.Is = <<>>
         /\ Len(ig.ts) = 1 + ig.t - ig.times[1]

\* a run that raised takes no further step
C10_Stays == ig.pc = "raised" => ig' = ig

\* ---- C10: when the ODE solver reports failure on a segment of
\* integrate_sir the integration aborts at that segment: every segment is
\* solved once and in order, the failing one is the last, nothing is returned,
\* and nothing changes afterwards.
C10_Fatal == []C10_Inv /\ [][C10_Stays]_vars

C10_Witness ==
  ig.pc = "raised" /\ ig.err = "integration failed!" /\ ig.i = 1 /\ ig.nt = 3

\* the evaluations of the upper-bound search (the first one is at xlo)
C6_UpperEvals == { i \in 2..Len(tg.evals) : TRUE }

C7_AsStated ==
  tg.pc \notin {"idle", "call"} /\ tg.flo >= 0
    => tg.pc = "raised" /\ Len(tg.evals) = 1 /\ tg.root = -1

\* ---- C7 (amended): get_target_scale evaluates the epidemic size at xlo
\* first; the lower-bound error is raised exactly when that epidemic size
\* exceeds the target, before any other evaluation and without a scale being
\* returned; when it equals the target the search goes on.
C7_LowerBound ==
  tg.pc \notin {"idle", "call"} =>
    /\ tg.evals[1] = <<xlo_exp, tg.flo>>
    /\ tg.flo =
         get_epidemic_size(scale_M(xlo_exp, tg.M), tg.Ii, tg.gamma,
                           tg.itermax, tg.rtol_stop) - tg.target
    /\ tg.flo > 0 =>
         /\ tg.pc = "raised"
         /\ tg.err = "Lower bound on scale not small enough!"
         /\ Len(tg.evals) = 1
         /\ tg.bracket = <<>>
         /\ tg.root = -1
    /\ tg.flo <= 0 => tg.err # "Lower bound on scale not small enough!"

C7_Witness ==
  tg.pc = "raised" /\ tg.flo > 0 /\ tg.err = "Lower bound on scale not small enough!"

\* the equality case of C7: the search went on and returned a scale
C7_EqualityReturns == tg.pc = "returned" /\ tg.flo = 0

\* a call of get_epidemic_size with well-formed inputs
C8_WellFormed ==
  es.pc # "idle" /\ size_shape_ok(es.M, es.epsilon_i) /\ es.itermax >= 1

\* ---- C8: with well-formed inputs get_epidemic_size runs at most itermax
\* iterations (every pass of the loop counts one and the loop is left at
\* itermax at the latest), stops at the first iteration whose relative change
\* is below rtol_stop, warns exactly when itermax iterations are exhausted
\* without meeting rtol_stop, never raises, and returns a value of Omega.
C8_BoundedIteration ==
  C8_WellFormed =>
    /\ es.niter <= es.itermax
    /\ es.pc # "raised"
    /\ es.pc = "loop" => es.warned = 0 /\ es.niter < es.itermax
    /\ es.pc = "loop" /\ es.niter > 0 => ~es.met
    /\ es.pc \in {"after", "returned"} =>
         /\ es.niter >= 1
         /\ es.met \/ es.niter = es.itermax
         /\ es.warned = IF es.met THEN 0 ELSE 1
    /\ es.pc = "returned" => es.Omega \in 0..Q
    /\ es.pc = "loop" => es.niter = es.iter
    /\ es.pc \in {"after", "returned"} => es.niter = es.iter + 1

\* every step of a well-formed call advances it
C8_Progress ==
  C8_WellFormed =>
    /\ es.pc = "call" => es'.pc = "loop"
    /\ es.pc = "loop" => es'.niter = es.niter + 1 /\ es'.pc \in {"loop", "after"}
    /\ es.pc = "after" => es'.pc = "returned"

C8_Steps == [][C8_Progress]_vars

C8_Witness ==
  C8_WellFormed /\ es.pc = "returned" /\ es.warned = 1 /\ es.itermax > 1

\* the early stop of C8: convergence before itermax iterations
C8_EarlyStop ==
  C8_WellFormed /\ es.pc = "returned" /\ es.met /\ es.niter < es.itermax

\* ---- C9 (as stated): the Omega returned by get_epidemic_size is derived
\* from the last X_{k+1} that was computed (Xnew of the last iteration).
C9_AsStated ==
  es.pc = "returned" => es.Omega = size_Omega(es.Xnew, es.epsilon_i)

\* what the code returns instead: Omega derived from X, the input of the last
\* iteration
C9_FromPrevious ==
  es.pc = "returned" => es.Omega = size_Omega(es.X, es.epsilon_i)

\* ---- C11: when fit_sir completes over n time points the fit table has n
\* rows indexed by the original time points; row j < n holds the scale
\* accepted for the segment starting at times[j] and the aggregate fraction
\* recorded then, the last row's scale is None, and every step records exactly
\* one scale and one aggregate fraction.
C11_FitTable ==
  /\ ft.pc \in {"step", "bracket", "solve"} =>
       /\ Len(ft.Ys) = Len(ft.b_scales) + 1
       /\ Len(ft.b_scales) = Len(ft.brackets)
       /\ Len(ft.b_scales) = ft.i - 1
  /\ ft.pc = "returned" =>
       /\ ft.df_fit.index = ft.times
       /\ Len(ft.df_fit.data) = Len(ft.times)
       /\ Len(ft.segs) = Len(ft.times) - 1
       /\ Len(ft.brackets) = Len(ft.times) - 1
       /\ \A j \in 1..(Len(ft.times) - 1) :
            /\ ft.segs[j].t = ft.times[j]
            /\ ft.df_fit.data[j][1] = ft.b_scales[j]
            /\ ft.df_fit.data[j][1] \in ft.brackets[j][1]..ft.brackets[j][2]
       /\ ft.df_fit.data[Len(ft.times)][1] = None
       /\ \A j \in 1..Len(ft.times) : ft.df_fit.data[j][2] = ft.Ys[j]

C11_Witness ==
  /\ ft.pc = "returned"
  /\ Len(ft.times) = 3
  /\ ft.df_fit.data[1][1] = 2
  /\ ft.df_fit.data[2][1] = 5
  /\ ft.df_fit.data[3][1] = None

\* the errors of the bracketing and of the root finding of a step of fit_sir
C12_StepErrors ==
  { "Problem in bracketing!", "root finding failed!",
    "f(a) and f(b) must have different signs" }

\* ---- C12 (as stated): when bracketing or root finding fails at a step of
\* fit_sir the fit aborts with no partial results returned, and the error
\* reported to the caller carries the date of the failing step.
C12_AsStated ==
  ft.pc = "raised" /\ ft.err \in C12_StepErrors =>
    /\ ft.df_S = <<>> /\ ft.df_I = <<>> /\ ft.df_fit = <<>>
    /\ \E k \in DOMAIN ft.err_values : ft.err_values[k] = store_key(ft.t)

\* what the code does: the fit aborts with no partial results, and the error
\* carries its constant message alone
C12_AbortsWithoutDate ==
  ft.pc = "raised" /\ ft.err \in C12_StepErrors =>
    /\ ft.df_S = <<>> /\ ft.df_I = <<>> /\ ft.df_fit = <<>>
    /\ ft.err_values = <<>>

\* ---- C13 (as stated): whether or not cupy is available, func_sir_dX, and so
\* integrate_sir and fit_sir, run: no call fails for want of the optional
\* backend.
C13_AsStated ==
  /\ ig.pc # "idle" => ig.err # "AttributeError"
  /\ ft.pc # "idle" => ft.err # "AttributeError"

\* what the code does without cupy: integrate_sir returns only when there is
\* no segment to integrate, and fit_sir does not get past its initial state
C13_NeedsCupy ==
  ~cp =>
    /\ ig.pc = "returned" => ig.nt = 1 /\ ig.nsolve = 0
    /\ ig.pc = "loop" => ig.nsolve = 0
    /\ ft.pc \notin {"idle", "call", "raised"} => FALSE
    /\ ft.pc = "raised" => ft.err \in {"KeyError", "AttributeError"}

\* with cupy no call fails for want of the backend
C13_WithCupy ==
  cp => (ig.pc # "idle" => ig.err # "AttributeError")
        /\ (ft.pc # "idle" => ft.err # "AttributeError")

\* ---- C14: fit_sir takes its initial condition from the first row of the
\* observed data: the first stored I row equals T_real[0], the first stored S
\* row equals 1 - T_real[0], the first recorded aggregate fraction is the
\* population-weighted mean of T_real[0], and the returned tables start with
\* these rows.
C14_InitialCondition ==
  /\ ft.pc \in {"step", "bracket", "solve", "returned"} =>
       /\ ft.Xs[1][2] = ft.T_real[1]
       /\ ft.Xs[1][1] = Vec([a \in 1..ft.N |-> Q - ft.T_real[1][a]])
       /\ ft.Ys[1] = SumSeq(Vec([a \in 1..ft.N |-> ft.T_real[1][a] * ft.population[a]]))
       /\ ft.Ys[1] = ft.Y_real[1]
       /\ ft.ts[1] = ft.times[1]
  /\ ft.pc = "returned" =>
       /\ ft.df_I.data[1] = ft.T_real[1]
       /\ ft.df_S.data[1] = Vec([a \in 1..ft.N |-> Q - ft.T_real[1][a]])
       /\ ft.df_fit.data[1][2] = ft.Y_real[1]
       /\ ft.df_S.index[1] = ft.times[1]

C14_Witness ==
  /\ ft.pc = "returned"
  /\ Len(ft.times) = 3
  /\ ft.T_real[1] = <<30, 10>>
  /\ ft.population = <<1, 3>>
  /\ ft.df_I.data[1] = <<30, 10>>
  /\ ft.df_S.data[1] = <<70, 90>>
  /\ ft.df_fit.data[1][2] = 60

\* ---- C15: state threading.  The first output sample of integrate_sir and
\* of fit_sir is the initial state; every segment after the first is
\* integrated from the last sample the segment before appended, and in
\* fit_sir every prediction of the bracketing of a step is computed from that
\* state.
C15_StateThreading ==
  /\ ig.pc \in {"loop", "returned"} \/ (ig.pc = "raised" /\ ig.segs # <<>>) =>
       /\ ig.Xs[1] = ig.Xi
       /\ \A j \in 1..Len(ig.segs) :
            ig.segs[j].X0 = ig.Xs[1 + ig.times[j] - ig.times[1]]
       /\ ig.pc = "loop" => ig.X = ig.Xs[Len(ig.Xs)]
  /\ ft.pc \in {"step", "bracket", "solve", "returned"} =>
       /\ ft.Xs[1] = sir_X_to_SI(fit_initial_state(ft.T_real), ft.N)
       /\ \A j \in 1..Len(ft.segs) :
            ft.segs[j].X0 = sir_SI_to_X(ft.Xs[j][1], ft.Xs[j][2])
       /\ ft.pc \in {"bracket", "solve"} =>
            /\ ft.X = ft.segs[Len(ft.segs)].X0
            /\ \A k \in 1..Len(ft.tries) :
                 ft.tries[k][2] =
                   fit_func_root(ft.tries[k][1], ft.segs[Len(ft.segs)].X0, ft.dt,
                                 ft.B, ft.gamma, ft.population, ft.ypred)
       /\ ft.pc = "step" =>
            ft.X = sir_SI_to_X(ft.Xs[Len(ft.Xs)][1], ft.Xs[Len(ft.Xs)][2])

C15_Witness ==
  /\ ig.pc = "returned"
  /\ Len(ig.segs) = 2
  /\ ig.segs[2].X0 # ig.Xi
  /\ ig.segs[2].X0 = ig.Xs[1 + ig.times[2] - ig.times[1]]
  /\ ft.pc = "bracket"
  /\ Len(ft.segs) = 2
  /\ ft.tries # <<>>
  /\ ft.segs[2].X0 # ft.segs[1].X0

\* ---- C16: integrate_sir and fit_sir read the store entry of times[0]
\* unconditionally before the loop: when the store has no entry for times[0]
\* the call fails with KeyError before any segment is integrated and, in
\* integrate_sir, before the length of scales is checked; no trajectory is
\* produced, whatever later dates the store holds.
C16_FirstDate ==
  /\ ig.pc \notin {"idle", "call"} =>
       /\ ~store_has(ig.store, ig.times[1]) =>
            /\ ig.pc = "raised" /\ ig.err = "KeyError"
            /\ ig.err_values = <<store_key(ig.times[1])>>
            /\ ig.segs = <<>> /\ ig.nsolve = 0
            /\ ig.ts = <<>> /\ ig.Xs = <<>> /\ ig.Ss = <<>> /\ ig.Is = <<>>
       /\ ig.err = "KeyError" => ~store_has(ig.store, ig.times[1])
  /\ ft.pc \notin {"idle", "call"} =>
       /\ ~store_has(ft.store, ft.times[1]) =>
            /\ ft.pc = "raised" /\ ft.err = "KeyError"
            /\ ft.err_values = <<store_key(ft.times[1])>>
            /\ ft.segs = <<>> /\ ft.tries = <<>>
            /\ ft.ts = <<>> /\ ft.Xs = <<>> /\ ft.df_S = <<>> /\ ft.df_fit = <<>>
       /\ ft.err = "KeyError" => ~store_has(ft.store, ft.times[1])

C16_Witness ==
  /\ ig.pc = "raised"
  /\ ig.err = "KeyError"
  /\ Len(ig.times) = 3
  /\ Len(ig.scales) # 2
  /\ store_has(ig.store, ig.times[2])

\* the case of fit_sir: no entry for times[0], one for the next time point
C16_FitWitness ==
  /\ ft.pc = "raised"
  /\ ft.err = "KeyError"
  /\ Len(ft.times) = 3
  /\ store_has(ft.store, ft.times[2])

\* a step of fit_sir in progress (or raised in) that started from scale 0 with
\* a target fraction above the current aggregate fraction
C17_Stuck ==
  /\ ft.pc \in {"bracket", "solve", "raised"}
  /\ ft.i >= 1
  /\ Len(ft.segs) = ft.i
  /\ ft.b_scale = 0
  /\ ft.ypred > ft.y

\* some positive scale reaches the target of the step in progress
C17_PositiveScaleExists ==
  \E b \in 1..(4 * QS) :
    fit_func_root(b, ft.X, ft.dt, ft.B, ft.gamma, ft.population, ft.ypred) >= 0

\* in such a step every upper-bound candidate is 0 and falls short of the
\* target by the same amount, and no scale is recorded
C17_ZeroStuck ==
  C17_Stuck =>
    /\ \A k \in 1..Len(ft.tries) : ft.tries[k] = <<0, ft.y - ft.ypred>>
    /\ ft.pc = "bracket" => ft.bhi = 0 /\ Len(ft.tries) = ft.k - 1
    /\ ft.pc = "solve" => ft.bhi = 0 /\ Len(ft.tries) = bracket_last_k /\ ft.f < 0
    /\ Len(ft.b_scales) = ft.i - 1
    /\ ft.pc = "raised" =>
         /\ ft.err \in {"Problem in bracketing!", "integration failed!"}
         /\ ft.err = "Problem in bracketing!" => Len(ft.tries) = bracket_last_k

\* such a step goes on bracketing or raises; after the last pass of the
\* bracketing loop it raises the bracketing error
C17_Step ==
  C17_Stuck /\ ft.pc \in {"bracket", "solve"} =>
    /\ ft'.pc \in {"bracket", "solve", "raised"}
    /\ ft.pc = "solve" => ft'.pc = "raised" /\ ft'.err = "Problem in bracketing!"

\* ---- C17: in fit_sir, when the scale the step starts from is 0 (accepted
\* at the step before, or the b_scale of the caller) and the target fraction
\* exceeds the current aggregate fraction, every upper-bound candidate of the
\* bracketing is 0, no scale is accepted for the step, and the step ends in
\* the bracketing error after all passes of the bracketing loop (unless the
\* solver fails first), even if a positive scale reaches the target.
C17_ZeroBracket == []C17_ZeroStuck /\ [][C17_Step]_vars

\* the scale accepted at the first step is 0, and the second step raises the
\* bracketing error although a positive scale reaches its target
C17_Witness ==
  /\ C17_Stuck
  /\ ft.pc = "raised"
  /\ ft.err = "Problem in bracketing!"
  /\ ft.i = 2
  /\ ft.b_scale0 > 0
  /\ ft.b_scales = <<0>>
  /\ C17_PositiveScaleExists

\* the case of the caller: b_scale = 0 at the first step
C17_CallerWitness ==
  /\ C17_Stuck
  /\ ft.pc = "raised"
  /\ ft.err = "Problem in bracketing!"
  /\ ft.i = 1
  /\ ft.b_scale0 = 0
  /\ C17_PositiveScaleExists

====
